---- MODULE Spec2Model ----
(***************************************************************************)
(* Model of the Alpaca trading tool dispatcher (src/server.py).            *)
(*                                                                         *)
(* The dispatcher advertises a fixed catalog of 9 tools (list_tools) and   *)
(* executes one of them per request (call_tool): it reads the arguments,   *)
(* hands the blocking tool method to an executor worker, awaits it, and    *)
(* serialises the returned object as one text payload.  Every tool method  *)
(* calls one operation of the brokerage SDK inside a try/except that turns *)
(* any failure into an error object.                                        *)
(*                                                                         *)
(* Conventions.                                                            *)
(*  - A Python value is a tagged record [t, s, n]: t is the type tag, s a  *)
(*    text, n a number.  A text is a sequence of chunks (strings); texts   *)
(*    whose letters matter (the side argument, and the literal "buy" it is *)
(*    compared with) are spelled one letter per chunk, digits of numeric   *)
(*    strings one digit per chunk.                                         *)
(*  - A dict is a function from key strings to values; a tool result is    *)
(*    [shape, items]: one dict ("object") or a list of dicts ("list").     *)
(*  - The brokerage is the environment: every SDK call returns one of a    *)
(*    small set of replies or raises one of a small set of failures.       *)
(***************************************************************************)
EXTENDS Integers, Sequences, FiniteSets, TLC

(***************************************************************************)
(* Bounds.                                                                 *)
(***************************************************************************)
\* Largest number of rows (positions, orders) in one brokerage reply.
MaxRows == 1
\* Number of request slots of the concurrent specification.
MaxCalls == 2
\* Number of worker threads of the executor pool.
NumWorkers == 2

(***************************************************************************)
(* Python values.                                                          *)
(***************************************************************************)
None == [t |-> "null", s |-> <<>>, n |-> 0]
StrV(x) == [t |-> "str", s |-> x, n |-> 0]
IntV(k) == [t |-> "int", s |-> <<>>, n |-> k]
FloatV(k) == [t |-> "float", s |-> <<>>, n |-> k]
BoolV(b) == [t |-> "bool", s |-> <<>>, n |-> IF b THEN 1 ELSE 0]
\* A member of one of the SDK's enumerations (OrderSide.BUY, ...).
EnumV(x) == [t |-> "enum", s |-> <<x>>, n |-> 0]
\* An object of the SDK with a string form (a datetime, a UUID).
ObjV(x) == [t |-> "obj", s |-> <<x>>, n |-> 0]

\* Python truthiness, as used by `x if v else y`.
Truthy(v) ==
  CASE v.t = "null" -> FALSE
    [] v.t = "str" -> v.s # <<>>
    [] v.t = "enum" -> TRUE
    [] v.t = "obj" -> TRUE
    [] OTHER -> v.n # 0

DigitVal(d) ==
  CASE d = "0" -> 0 [] d = "1" -> 1 [] d = "2" -> 2 [] d = "3" -> 3
    [] d = "4" -> 4 [] d = "5" -> 5 [] d = "6" -> 6 [] d = "7" -> 7
    [] d = "8" -> 8 [] d = "9" -> 9

RECURSIVE ParseDigits(_)
ParseDigits(txt) ==
  IF txt = <<>> THEN 0
  ELSE 10 * ParseDigits(SubSeq(txt, 1, Len(txt) - 1)) + DigitVal(txt[Len(txt)])

\* float(v) for the values the brokerage returns: a number or a decimal string.
ToFloat(v) == IF v.t = "str" THEN FloatV(ParseDigits(v.s)) ELSE FloatV(v.n)

\* int(v), same domain.
ToInt(v) == IF v.t = "str" THEN IntV(ParseDigits(v.s)) ELSE IntV(v.n)

\* str(v) of a value that is present (timestamps, identifiers).
ToStr(v) == StrV(v.s)

LowerChar(ch) ==
  CASE ch = "B" -> "b" [] ch = "U" -> "u" [] ch = "Y" -> "y"
    [] ch = "S" -> "s" [] ch = "E" -> "e" [] ch = "L" -> "l"
    [] ch = "O" -> "o" [] ch = "G" -> "g"
    [] OTHER -> ch

\* str.lower(): letter by letter.
Lower(txt) == [i \in DOMAIN txt |-> LowerChar(txt[i])]

\* str(KeyError(k)): the repr of the missing key, a string with text txt.
KeyErrorText(txt) == <<"'">> \o txt \o <<"'">>

\* str(AttributeError) raised by side.lower() on a value that is no string.
NoLowerText(v) == <<"'", v.t, "' object has no attribute 'lower'">>

(***************************************************************************)
(* Dicts and results.                                                      *)
(***************************************************************************)
HasKey(d, k) == k \in DOMAIN d
\* dict.get(k, default)
Get(d, k, default) == IF k \in DOMAIN d THEN d[k] ELSE default

Object(d) == [shape |-> "object", items |-> <<d>>]
List(ds) == [shape |-> "list", items |-> ds]

\* {"error": str(e)}
ErrorDict(txt) == [error |-> StrV(txt)]

(***************************************************************************)
(* The catalog (list_tools).                                               *)
(***************************************************************************)
\* Tool(name=..., inputSchema={properties, required}); defaults: the
\* "default" entries of the properties.
Tool(name, properties, required, defaults) ==
  [name |-> name, properties |-> properties, required |-> required,
   defaults |-> defaults]

\* A mutated catalog: the last entry is missing.
list_tools_short ==
  << Tool("get_account_info", {}, <<>>, <<>>),
     Tool("get_positions", {}, <<>>, <<>>),
     Tool("get_orders", {"status"}, <<>>, [status |-> StrV(<<"open">>)]),
     Tool("place_market_order", {"symbol", "quantity", "side"},
          <<"symbol", "quantity", "side">>, <<>>),
     Tool("place_limit_order", {"symbol", "quantity", "side", "limit_price"},
          <<"symbol", "quantity", "side", "limit_price">>, <<>>),
     Tool("cancel_order", {"order_id"}, <<"order_id">>, <<>>),
     Tool("get_stock_quote", {"symbol"}, <<"symbol">>, <<>>),
     Tool("close_position", {"symbol"}, <<"symbol">>, <<>>) >>

list_tools ==
  << Tool("get_account_info", {}, <<>>, <<>>),
     Tool("get_positions", {}, <<>>, <<>>),
     Tool("get_orders", {"status"}, <<>>, [status |-> StrV(<<"open">>)]),
     Tool("place_market_order", {"symbol", "quantity", "side"},
          <<"symbol", "quantity", "side">>, <<>>),
     Tool("place_limit_order", {"symbol", "quantity", "side", "limit_price"},
          <<"symbol", "quantity", "side", "limit_price">>, <<>>),
     Tool("cancel_order", {"order_id"}, <<"order_id">>, <<>>),
     Tool("get_stock_quote", {"symbol"}, <<"symbol">>, <<>>),
     Tool("close_position", {"symbol"}, <<"symbol">>, <<>>),
     Tool("close_all_positions", {"cancel_orders"}, <<>>,
          [cancel_orders |-> BoolV(FALSE)]) >>

(***************************************************************************)
(* The SDK's enumerations and request objects.                             *)
(***************************************************************************)
OrderSide_BUY == EnumV("buy")
OrderSide_SELL == EnumV("sell")
TimeInForce_DAY == EnumV("day")
QueryOrderStatus_OPEN == EnumV("open")
QueryOrderStatus_CLOSED == EnumV("closed")

\* One call of the SDK: the client, the method and the request it is given.
SdkCall(client, op, req) == [client |-> client, op |-> op, req |-> req]

\* An outcome of an SDK call: a reply (data) or a raised failure (exc).
\* book is the brokerage's whole order list when the call is get_orders.
Reply(data) == [raised |-> FALSE, exc |-> <<>>, data |-> data, book |-> <<>>]
Failure(exc) == [raised |-> TRUE, exc |-> exc, data |-> <<>>, book |-> <<>>]

(***************************************************************************)
(* Order-side translation (lines 373 and 399).                             *)
(***************************************************************************)
\* A mutated translation: the comparison forgets to lower-case the argument.
OrderSideOf_exact(side) ==
  IF side.s = <<"b", "u", "y">> THEN OrderSide_BUY ELSE OrderSide_SELL

\* OrderSide.BUY if side.lower() == "buy" else OrderSide.SELL, for a string.
OrderSideOf(side) ==
  IF Lower(side.s) = <<"b", "u", "y">> THEN OrderSide_BUY ELSE OrderSide_SELL

(***************************************************************************)
(* get_orders' status filter (lines 335-339).                              *)
(***************************************************************************)
\* A mutated filter: "all" is sent as the OPEN filter.
GetOrdersRequest_allopen(status) ==
  IF status = StrV(<<"open">>) \/ status = StrV(<<"all">>)
  THEN [status |-> QueryOrderStatus_OPEN]
  ELSE IF status = StrV(<<"closed">>) THEN [status |-> QueryOrderStatus_CLOSED]
  ELSE [status |-> None]

\* request_params = GetOrdersRequest(); its status is set for "open" and
\* "closed" and left unset otherwise.
GetOrdersRequest(status) ==
  IF status = StrV(<<"open">>) THEN [status |-> QueryOrderStatus_OPEN]
  ELSE IF status = StrV(<<"closed">>) THEN [status |-> QueryOrderStatus_CLOSED]
  ELSE [status |-> None]

MarketOrderRequest(symbol, quantity, side) ==
  [symbol |-> symbol, qty |-> quantity, side |-> OrderSideOf(side),
   time_in_force |-> TimeInForce_DAY]

LimitOrderRequest(symbol, quantity, side, limit_price) ==
  [symbol |-> symbol, qty |-> quantity, side |-> OrderSideOf(side),
   time_in_force |-> TimeInForce_DAY, limit_price |-> limit_price]

StockLatestQuoteRequest(symbol) == [symbol_or_symbols |-> symbol]

(***************************************************************************)
(* The tool methods.  Each takes its arguments and `out`, the outcome of   *)
(* the one SDK call it makes, and returns the method's result.             *)
(***************************************************************************)
\* float(v) if v else None
FloatOrNone(v) == IF Truthy(v) THEN ToFloat(v) ELSE None
\* str(v) if v else None
StrOrNone(v) == IF Truthy(v) THEN ToStr(v) ELSE None

_get_account_info(out) ==
  IF out.raised THEN Object(ErrorDict(out.exc))
  ELSE LET account == out.data IN
    Object([account_number |-> account.account_number,
            status |-> account.status,
            currency |-> account.currency,
            buying_power |-> ToFloat(account.buying_power),
            cash |-> ToFloat(account.cash),
            portfolio_value |-> ToFloat(account.portfolio_value),
            equity |-> ToFloat(account.equity),
            last_equity |-> ToFloat(account.last_equity),
            long_market_value |-> ToFloat(account.long_market_value),
            short_market_value |-> ToFloat(account.short_market_value),
            pattern_day_trader |-> account.pattern_day_trader,
            trading_blocked |-> account.trading_blocked,
            transfers_blocked |-> account.transfers_blocked,
            account_blocked |-> account.account_blocked,
            trade_suspended_by_user |-> account.trade_suspended_by_user,
            daytrade_count |-> account.daytrade_count,
            daytrading_buying_power |->
              IF Truthy(account.daytrading_buying_power)
              THEN ToFloat(account.daytrading_buying_power) ELSE IntV(0)])

\* The dict appended for one position (lines 315-327).
PositionRow(position) ==
  [symbol |-> position.symbol,
   quantity |-> ToFloat(position.qty),
   avg_entry_price |-> ToFloat(position.avg_entry_price),
   market_value |-> ToFloat(position.market_value),
   cost_basis |-> ToFloat(position.cost_basis),
   unrealized_pl |-> ToFloat(position.unrealized_pl),
   unrealized_plpc |-> ToFloat(position.unrealized_plpc),
   current_price |-> FloatOrNone(position.current_price),
   lastday_price |-> FloatOrNone(position.lastday_price),
   change_today |-> FloatOrNone(position.change_today),
   side |-> position.side]

_get_positions(out) ==
  IF out.raised THEN List(<<ErrorDict(out.exc)>>)
  ELSE LET positions == out.data IN
    List([i \in 1..Len(positions) |-> PositionRow(positions[i])])

\* A mutated row: an absent limit_price is output as 0.
OrderRow_zero(order) ==
  [id |-> order.id,
   symbol |-> order.symbol,
   quantity |-> ToFloat(order.qty),
   filled_qty |-> IF Truthy(order.filled_qty) THEN ToFloat(order.filled_qty)
                  ELSE IntV(0),
   side |-> order.side,
   order_type |-> order.order_type,
   time_in_force |-> order.time_in_force,
   limit_price |-> IF Truthy(order.limit_price) THEN ToFloat(order.limit_price)
                   ELSE IntV(0),
   stop_price |-> FloatOrNone(order.stop_price),
   status |-> order.status,
   created_at |-> ToStr(order.created_at),
   updated_at |-> ToStr(order.updated_at),
   filled_at |-> StrOrNone(order.filled_at),
   expired_at |-> StrOrNone(order.expired_at),
   canceled_at |-> StrOrNone(order.canceled_at),
   failed_at |-> StrOrNone(order.failed_at),
   filled_avg_price |-> FloatOrNone(order.filled_avg_price)]

\* The dict appended for one order (lines 344-362).
OrderRow(order) ==
  [id |-> order.id,
   symbol |-> order.symbol,
   quantity |-> ToFloat(order.qty),
   filled_qty |-> IF Truthy(order.filled_qty) THEN ToFloat(order.filled_qty)
                  ELSE IntV(0),
   side |-> order.side,
   order_type |-> order.order_type,
   time_in_force |-> order.time_in_force,
   limit_price |-> FloatOrNone(order.limit_price),
   stop_price |-> FloatOrNone(order.stop_price),
   status |-> order.status,
   created_at |-> ToStr(order.created_at),
   updated_at |-> ToStr(order.updated_at),
   filled_at |-> StrOrNone(order.filled_at),
   expired_at |-> StrOrNone(order.expired_at),
   canceled_at |-> StrOrNone(order.canceled_at),
   failed_at |-> StrOrNone(order.failed_at),
   filled_avg_price |-> FloatOrNone(order.filled_avg_price)]

_get_orders(status, out) ==
  IF out.raised THEN List(<<ErrorDict(out.exc)>>)
  ELSE LET orders == out.data IN
    List([i \in 1..Len(orders) |-> OrderRow(orders[i])])

_place_market_order(symbol, quantity, side, out) ==
  IF side.t # "str" THEN Object(ErrorDict(NoLowerText(side)))
  ELSE IF out.raised THEN Object(ErrorDict(out.exc))
  ELSE LET order == out.data IN
    Object([success |-> BoolV(TRUE),
            order_id |-> order.id,
            symbol |-> order.symbol,
            quantity |-> ToFloat(order.qty),
            side |-> order.side,
            order_type |-> order.order_type,
            time_in_force |-> order.time_in_force,
            status |-> order.status,
            created_at |-> ToStr(order.created_at)])

_place_limit_order(symbol, quantity, side, limit_price, out) ==
  IF side.t # "str" THEN Object(ErrorDict(NoLowerText(side)))
  ELSE IF out.raised THEN Object(ErrorDict(out.exc))
  ELSE LET order == out.data IN
    Object([success |-> BoolV(TRUE),
            order_id |-> order.id,
            symbol |-> order.symbol,
            quantity |-> ToFloat(order.qty),
            side |-> order.side,
            order_type |-> order.order_type,
            time_in_force |-> order.time_in_force,
            limit_price |-> ToFloat(order.limit_price),
            status |-> order.status,
            created_at |-> ToStr(order.created_at)])

_cancel_order(order_id, out) ==
  IF out.raised THEN Object(ErrorDict(out.exc))
  ELSE Object([success |-> BoolV(TRUE),
               message |-> StrV(<<"Order ">> \o order_id.s
                                \o <<" cancelled successfully">>)])

_get_stock_quote(symbol, out) ==
  IF out.raised THEN Object(ErrorDict(out.exc))
  ELSE LET quotes == out.data IN
    IF symbol.s \notin DOMAIN quotes
    THEN Object(ErrorDict(KeyErrorText(symbol.s)))
    ELSE LET quote == quotes[symbol.s] IN
      Object([symbol |-> symbol,
              ask_price |-> ToFloat(quote.ask_price),
              ask_size |-> ToInt(quote.ask_size),
              bid_price |-> ToFloat(quote.bid_price),
              bid_size |-> ToInt(quote.bid_size),
              timestamp |-> ToStr(quote.timestamp)])

_close_position(symbol, out) ==
  IF out.raised THEN Object(ErrorDict(out.exc))
  ELSE Object([success |-> BoolV(TRUE),
               message |-> StrV(<<"Position for ">> \o symbol.s
                                \o <<" closed successfully">>)])

_close_all_positions(cancel_orders, out) ==
  IF out.raised THEN Object(ErrorDict(out.exc))
  ELSE Object([success |-> BoolV(TRUE),
               message |-> StrV(<<"All positions closed successfully">>),
               orders_cancelled |-> cancel_orders])

(***************************************************************************)
(* What a worker runs: the job handed to run_in_executor.                  *)
(***************************************************************************)
Job(fn, params) == [fn |-> fn, params |-> params]

\* The SDK call the tool method makes; none when the method fails before it
\* reaches the call (side.lower() on a value that is no string).
CallsOf(job) ==
  LET p == job.params IN
  CASE job.fn = "_get_account_info" ->
         <<SdkCall("trading_client", "get_account", <<>>)>>
    [] job.fn = "_get_positions" ->
         <<SdkCall("trading_client", "get_all_positions", <<>>)>>
    [] job.fn = "_get_orders" ->
         <<SdkCall("trading_client", "get_orders", GetOrdersRequest(p[1]))>>
    [] job.fn = "_place_market_order" ->
         IF p[3].t # "str" THEN <<>>
         ELSE <<SdkCall("trading_client", "submit_order",
                        MarketOrderRequest(p[1], p[2], p[3]))>>
    [] job.fn = "_place_limit_order" ->
         IF p[3].t # "str" THEN <<>>
         ELSE <<SdkCall("trading_client", "submit_order",
                        LimitOrderRequest(p[1], p[2], p[3], p[4]))>>
    [] job.fn = "_cancel_order" ->
         <<SdkCall("trading_client", "cancel_order_by_id", [order_id |-> p[1]])>>
    [] job.fn = "_get_stock_quote" ->
         <<SdkCall("data_client", "get_stock_latest_quote",
                   StockLatestQuoteRequest(p[1]))>>
    [] job.fn = "_close_position" ->
         <<SdkCall("trading_client", "close_position",
                   [symbol_or_asset_id |-> p[1]])>>
    [] job.fn = "_close_all_positions" ->
         <<SdkCall("trading_client", "close_all_positions",
                   [cancel_orders |-> p[1]])>>

\* The method's result, given the outcome of its SDK call.
RunMethod(job, out) ==
  LET p == job.params IN
  CASE job.fn = "_get_account_info" -> _get_account_info(out)
    [] job.fn = "_get_positions" -> _get_positions(out)
    [] job.fn = "_get_orders" -> _get_orders(p[1], out)
    [] job.fn = "_place_market_order" ->
         _place_market_order(p[1], p[2], p[3], out)
    [] job.fn = "_place_limit_order" ->
         _place_limit_order(p[1], p[2], p[3], p[4], out)
    [] job.fn = "_cancel_order" -> _cancel_order(p[1], out)
    [] job.fn = "_get_stock_quote" -> _get_stock_quote(p[1], out)
    [] job.fn = "_close_position" -> _close_position(p[1], out)
    [] job.fn = "_close_all_positions" -> _close_all_positions(p[1], out)

\* A mutated handler: a failed SDK call is sent a second time.
ExceptCalls_retry(job, out) == IF out.raised THEN CallsOf(job) ELSE <<>>

\* The SDK calls a tool method makes once its SDK call has returned or
\* raised: none.  After a reply it only builds its result; after a failure
\* its except clause returns {"error": str(e)}.
ExceptCalls(job, out) == <<>>

(***************************************************************************)
(* call_tool's dispatch (lines 219-271): what the handler does up to its   *)
(* await.                                                                  *)
(***************************************************************************)
\* A mutated subscript: a missing key reads as None instead of raising.
Subscripts_get(arguments, keys) ==
  [raised |-> FALSE, exc |-> <<>>,
   vals |-> [i \in 1..Len(keys) |-> Get(arguments, keys[i], None)]]

\* arguments[k1], arguments[k2], ... evaluated left to right: the values, or
\* the KeyError of the first key that is missing.
Subscripts(arguments, keys) ==
  LET missing == {i \in 1..Len(keys) : ~HasKey(arguments, keys[i])} IN
  IF missing = {}
  THEN [raised |-> FALSE, exc |-> <<>>,
        vals |-> [i \in 1..Len(keys) |-> arguments[keys[i]]]]
  ELSE LET first == CHOOSE i \in missing : \A j \in missing : i <= j IN
       [raised |-> TRUE, exc |-> KeyErrorText(<<keys[first]>>), vals |-> <<>>]

\* A mutated default: an absent status reads as "all".
StatusArgument_all(arguments) == Get(arguments, "status", StrV(<<"all">>))

\* arguments.get("status", "open") (line 227)
StatusArgument(arguments) == Get(arguments, "status", StrV(<<"open">>))

\* arguments.get("cancel_orders", False) (line 268)
CancelOrdersArgument(arguments) == Get(arguments, "cancel_orders", BoolV(FALSE))

ToJob(fn, sub) == [kind |-> "job", job |-> Job(fn, sub.vals), exc |-> sub.exc,
                   result |-> Object(<<>>)]
ToRaise(sub) == [kind |-> "raise", job |-> Job("", <<>>), exc |-> sub.exc,
                 result |-> Object(<<>>)]
ToResult(r) == [kind |-> "result", job |-> Job("", <<>>), exc |-> <<>>,
                result |-> r]
Submit(fn, sub) == IF sub.raised THEN ToRaise(sub) ELSE ToJob(fn, sub)
Positional(vals) == [raised |-> FALSE, exc |-> <<>>, vals |-> vals]

\* A mutated dispatch: a name that matches no branch runs _get_account_info.
Dispatch_fallthrough(name, arguments) ==
  CASE name = "get_positions" -> Submit("_get_positions", Positional(<<>>))
    [] name = "get_orders" ->
         Submit("_get_orders",
                Positional(<<StatusArgument(arguments)>>))
    [] name = "place_market_order" ->
         Submit("_place_market_order",
                Subscripts(arguments, <<"symbol", "quantity", "side">>))
    [] name = "place_limit_order" ->
         Submit("_place_limit_order",
                Subscripts(arguments,
                           <<"symbol", "quantity", "side", "limit_price">>))
    [] name = "cancel_order" ->
         Submit("_cancel_order", Subscripts(arguments, <<"order_id">>))
    [] name = "get_stock_quote" ->
         Submit("_get_stock_quote", Subscripts(arguments, <<"symbol">>))
    [] name = "close_position" ->
         Submit("_close_position", Subscripts(arguments, <<"symbol">>))
    [] name = "close_all_positions" ->
         Submit("_close_all_positions",
                Positional(<<CancelOrdersArgument(arguments)>>))
    [] OTHER -> Submit("_get_account_info", Positional(<<>>))

Dispatch(name, arguments) ==
  CASE name = "get_account_info" ->
         Submit("_get_account_info", Positional(<<>>))
    [] name = "get_positions" -> Submit("_get_positions", Positional(<<>>))
    [] name = "get_orders" ->
         Submit("_get_orders",
                Positional(<<StatusArgument(arguments)>>))
    [] name = "place_market_order" ->
         Submit("_place_market_order",
                Subscripts(arguments, <<"symbol", "quantity", "side">>))
    [] name = "place_limit_order" ->
         Submit("_place_limit_order",
                Subscripts(arguments,
                           <<"symbol", "quantity", "side", "limit_price">>))
    [] name = "cancel_order" ->
         Submit("_cancel_order", Subscripts(arguments, <<"order_id">>))
    [] name = "get_stock_quote" ->
         Submit("_get_stock_quote", Subscripts(arguments, <<"symbol">>))
    [] name = "close_position" ->
         Submit("_close_position", Subscripts(arguments, <<"symbol">>))
    [] name = "close_all_positions" ->
         Submit("_close_all_positions",
                Positional(<<CancelOrdersArgument(arguments)>>))
    [] OTHER -> ToResult(Object(ErrorDict(<<"Unknown tool: ", name>>)))

(***************************************************************************)
(* Serialisation (lines 273-281).                                          *)
(***************************************************************************)
\* json.dumps(..., default=str) of one value: enumeration members and SDK
\* objects are written in their string form.
DumpValue(v) == IF v.t \in {"enum", "obj"} THEN StrV(v.s) ELSE v
DumpDict(d) == [k \in DOMAIN d |-> DumpValue(d[k])]
JsonDumps(result) ==
  [shape |-> result.shape,
   items |-> [i \in 1..Len(result.items) |-> DumpDict(result.items[i])]]

TextContent(text) == [type |-> "text", text |-> text]

\* What call_tool hands back: the returned list, or the fault that escaped.
Returned(contents) == [fault |-> FALSE, exc |-> <<>>, contents |-> contents]
Escaped(exc) == [fault |-> TRUE, exc |-> exc, contents |-> <<>>]

\* A mutated handler: no except clause, the exception leaves call_tool.
HandleException_none(exc) == Escaped(exc)

\* except Exception as e: return [TextContent(json.dumps({"error": str(e)}))]
HandleException(exc) ==
  Returned(<<TextContent(JsonDumps(Object(ErrorDict(exc))))>>)

\* return [TextContent(type="text", text=json.dumps(result, ...))]
ReturnResult(result) == Returned(<<TextContent(JsonDumps(result))>>)

(***************************************************************************)
(* The environment: the brokerage behind the SDK.  `rich` selects the full *)
(* set of replies; the concurrent specification uses one reply per call.   *)
(***************************************************************************)
\* A numeric field the brokerage may leave out: absent, or a decimal string.
NullableRaw == {None, StrV(<<"7">>)}
\* The failures an SDK call may raise (str(e)).
BrokerErrors(rich) ==
  IF rich THEN {<<"insufficient buying power">>, <<"forbidden.">>}
  ELSE {<<"forbidden.">>}

RawAccount(dtbp) ==
  [account_number |-> StrV(<<"PA1">>), status |-> EnumV("ACTIVE"),
   currency |-> StrV(<<"USD">>), buying_power |-> StrV(<<"4", "0">>),
   cash |-> StrV(<<"2", "0">>), portfolio_value |-> StrV(<<"3", "0">>),
   equity |-> StrV(<<"3", "0">>), last_equity |-> StrV(<<"2", "9">>),
   long_market_value |-> StrV(<<"1", "0">>),
   short_market_value |-> StrV(<<"0">>),
   pattern_day_trader |-> BoolV(FALSE), trading_blocked |-> BoolV(FALSE),
   transfers_blocked |-> BoolV(FALSE), account_blocked |-> BoolV(FALSE),
   trade_suspended_by_user |-> BoolV(FALSE), daytrade_count |-> IntV(0),
   daytrading_buying_power |-> dtbp]

RawPosition(current, lastday, change) ==
  [symbol |-> StrV(<<"AAPL">>), qty |-> StrV(<<"2">>),
   avg_entry_price |-> StrV(<<"5">>), market_value |-> StrV(<<"1", "4">>),
   cost_basis |-> StrV(<<"1", "0">>), unrealized_pl |-> StrV(<<"4">>),
   unrealized_plpc |-> StrV(<<"0">>), current_price |-> current,
   lastday_price |-> lastday, change_today |-> change,
   side |-> EnumV("long")]

RawOrder(status, filled_qty, limit_price, stop_price, filled_avg_price, ts) ==
  [id |-> ObjV("order-1"), symbol |-> StrV(<<"AAPL">>), qty |-> StrV(<<"2">>),
   filled_qty |-> filled_qty, side |-> OrderSide_BUY,
   order_type |-> EnumV("limit"), time_in_force |-> TimeInForce_DAY,
   limit_price |-> limit_price, stop_price |-> stop_price,
   status |-> status, created_at |-> ObjV("2024-01-02 10:00:00"),
   updated_at |-> ObjV("2024-01-02 10:00:01"), filled_at |-> ts,
   expired_at |-> ts, canceled_at |-> ts, failed_at |-> ts,
   filled_avg_price |-> filled_avg_price]

Accounts(rich) ==
  IF rich THEN {RawAccount(d) : d \in NullableRaw \cup {FloatV(0)}}
  ELSE {RawAccount(None)}

Positions(rich) ==
  IF rich
  THEN {RawPosition(a, b, c) : a \in NullableRaw \cup {FloatV(0)},
                                b \in NullableRaw, c \in NullableRaw}
  ELSE {RawPosition(None, None, None)}

Orders(rich) ==
  IF rich
  THEN {RawOrder(st, a, b, c, d, ts) :
          st \in {EnumV("new"), EnumV("filled")},
          a \in NullableRaw, b \in NullableRaw, c \in NullableRaw,
          d \in NullableRaw, ts \in {None, ObjV("2024-01-02 10:00:02")}}
  ELSE {RawOrder(EnumV("new"), None, None, None, None, None)}

\* The lists of at most MaxRows rows over a set.
Rows(S) == UNION {[1..k -> S] : k \in 0..MaxRows}

\* The brokerage's order query: the orders that pass the status filter
\* (the SDK's three cases: open, closed, unfiltered).
Matches(order, filter) ==
  \/ filter = None
  \/ filter = QueryOrderStatus_OPEN /\ order.status = EnumV("new")
  \/ filter = QueryOrderStatus_CLOSED /\ order.status = EnumV("filled")

QueryOrders(book, filter) ==
  LET Pass(order) == Matches(order, filter) IN SelectSeq(book, Pass)

\* The order the brokerage reports for a submitted request.
EchoOrder(req) ==
  [id |-> ObjV("order-2"), symbol |-> req.symbol, qty |-> req.qty,
   side |-> req.side,
   order_type |-> IF "limit_price" \in DOMAIN req THEN EnumV("limit")
                  ELSE EnumV("market"),
   time_in_force |-> req.time_in_force,
   limit_price |-> IF "limit_price" \in DOMAIN req THEN req.limit_price
                   ELSE None,
   status |-> EnumV("accepted"), created_at |-> ObjV("2024-01-02 10:00:03")]

RawQuote ==
  [ask_price |-> StrV(<<"9">>), ask_size |-> StrV(<<"3">>),
   bid_price |-> StrV(<<"8">>), bid_size |-> StrV(<<"1">>),
   timestamp |-> ObjV("2024-01-02 10:00:04")]

\* The quote batches: with the requested symbol, or without it.
QuoteBatches(symbol) ==
  {[k \in {symbol.s} |-> RawQuote], [k \in {<<"SPY">>} |-> RawQuote]}

\* Every outcome the SDK call `call` may have.
Outcomes(call, rich) ==
  {Failure(e) : e \in BrokerErrors(rich)} \cup
  CASE call.op = "get_account" -> {Reply(a) : a \in Accounts(rich)}
    [] call.op = "get_all_positions" ->
         {Reply(ps) : ps \in Rows(Positions(rich))}
    [] call.op = "get_orders" ->
         {[Reply(QueryOrders(book, call.req.status)) EXCEPT !.book = book] :
            book \in Rows(Orders(rich))}
    [] call.op = "submit_order" -> {Reply(EchoOrder(call.req))}
    [] call.op = "get_stock_latest_quote" ->
         {Reply(q) : q \in QuoteBatches(call.req.symbol_or_symbols)}
    [] OTHER -> {Reply(<<>>)}

(***************************************************************************)
(* The requests a caller may send.                                         *)
(***************************************************************************)
Buy == <<"b", "u", "y">>
StatusValues(rich) ==
  IF rich
  THEN {StrV(<<"open">>), StrV(<<"closed">>), StrV(<<"all">>),
        StrV(<<"OPEN">>), IntV(1)}
  ELSE {StrV(<<"closed">>)}
SideValues(rich) ==
  IF rich
  THEN {StrV(Buy), StrV(<<"B", "U", "Y">>), StrV(<<"B", "u", "y">>),
        StrV(<<"s", "e", "l", "l">>), StrV(<<"B", "O", "G", "U", "S">>),
        IntV(1)}
  ELSE {StrV(Buy)}

\* The values a caller may give each argument.
Choices(key, rich) ==
  CASE key = "status" -> StatusValues(rich)
    [] key = "side" -> SideValues(rich)
    [] key = "symbol" -> {StrV(<<"AAPL">>)}
    [] key = "quantity" -> {IntV(1)}
    [] key = "limit_price" -> {IntV(5)}
    [] key = "order_id" -> {StrV(<<"order-1">>)}
    [] key = "cancel_orders" ->
         IF rich THEN {BoolV(TRUE), BoolV(FALSE)} ELSE {BoolV(TRUE)}

\* The argument maps over the keys K: one value for every key.
MapsOver(K, rich) ==
  {f \in [K -> UNION {Choices(k, rich) : k \in K}] :
     \A k \in K : f[k] \in Choices(k, rich)}

\* Every argument map over a subset of the tool's properties.
ArgumentMaps(tool, rich) ==
  UNION {MapsOver(K, rich) : K \in SUBSET tool.properties}

UnknownNames(rich) ==
  IF rich THEN {"nonexistent_tool", "GET_ORDERS"} ELSE {"nonexistent_tool"}

Request(name, arguments) ==
  [kind |-> "call_tool", name |-> name, arguments |-> arguments]
ListRequest == [kind |-> "list_tools", name |-> "", arguments |-> <<>>]
NoRequest == [kind |-> "none", name |-> "", arguments |-> <<>>]

\* The requests of the full model: every tool with every argument map, and
\* unknown names.  The concurrent specification draws from four of them: a
\* read, an order, a request with a missing argument and an unknown name.
Requests(rich) ==
  IF rich
  THEN UNION {{Request(list_tools[i].name, a) :
                 a \in ArgumentMaps(list_tools[i], rich)} :
              i \in 1..Len(list_tools)} \cup
       {Request(n, a) : n \in UnknownNames(rich),
                        a \in {<<>>, [symbol |-> StrV(<<"AAPL">>)]}}
  ELSE {Request("get_account_info", <<>>),
        Request("place_market_order",
                [symbol |-> StrV(<<"AAPL">>), quantity |-> IntV(1),
                 side |-> StrV(Buy)]),
        Request("close_position", <<>>),
        Request("nonexistent_tool", <<>>)}

(***************************************************************************)
(* State.                                                                  *)
(***************************************************************************)
VARIABLES
  pc,         \* per slot: idle, awaiting, running, resolved, done
  request,    \* per slot: the request being handled
  job,        \* per slot: the job handed to the executor
  sdk,        \* per slot: the SDK calls the request's worker has made
  outcome,    \* per slot: the outcome of the SDK call
  result,     \* per slot: the tool method's result (the future's value)
  response,   \* per slot: what the handler handed back
  queue,      \* executor: the slots whose job waits for a worker
  loopOwner,  \* the slot whose handler occupies the event loop, 0 if none
  overlap     \* per slot: where the other slots' requests stood when this
              \* slot's request arrived (history, read by no action's guard)

vars ==
  <<pc, request, job, sdk, outcome, result, response, queue, loopOwner,
    overlap>>

Slots == 1..MaxCalls
NoJob == Job("", <<>>)
NoOutcome == [raised |-> FALSE, exc |-> <<>>, data |-> <<>>, book |-> <<>>]
NoResult == Object(<<>>)
NoResponse == [fault |-> FALSE, exc |-> <<>>, contents |-> <<>>]

Init ==
  /\ pc = [c \in Slots |-> "idle"]
  /\ request = [c \in Slots |-> NoRequest]
  /\ job = [c \in Slots |-> NoJob]
  /\ sdk = [c \in Slots |-> <<>>]
  /\ outcome = [c \in Slots |-> NoOutcome]
  /\ result = [c \in Slots |-> NoResult]
  /\ response = [c \in Slots |-> NoResponse]
  /\ queue = <<>>
  /\ loopOwner = 0
  /\ overlap = [c \in Slots |-> [d \in Slots |-> "idle"]]

\* The record of the other slots taken when slot c's request arrives.
Arrive(c) == [overlap EXCEPT ![c] = [d \in Slots |-> IF d = c THEN "idle" ELSE pc[d]]]
\* Slot c's request is over: no record mentions it any more.
Forget(c) ==
  [d \in Slots |-> IF d = c THEN [e \in Slots |-> "idle"]
                   ELSE [overlap[d] EXCEPT ![c] = "idle"]]

\* The workers that are running a job.
Running == {c \in Slots : pc[c] = "running"}

(***************************************************************************)
(* The event loop while a handler awaits run_in_executor.                  *)
(***************************************************************************)
\* A mutated call: the tool method is called in the handler, which keeps the
\* event loop until the method returns.
AwaitExecutor_blocking(c) == c

\* await loop.run_in_executor(None, ...): the handler is suspended and the
\* event loop is free.
AwaitExecutor(c) == 0

(***************************************************************************)
(* Actions.                                                                *)
(***************************************************************************)
\* list_tools(): returns the catalog.
ListTools(c) ==
  /\ pc[c] = "idle"
  /\ loopOwner = 0
  /\ pc' = [pc EXCEPT ![c] = "done"]
  /\ request' = [request EXCEPT ![c] = ListRequest]
  /\ response' = [response EXCEPT ![c] = Returned(list_tools)]
  /\ overlap' = Arrive(c)
  /\ UNCHANGED <<job, sdk, outcome, result, queue, loopOwner>>

\* call_tool(name, arguments) up to its await (lines 215-271): the dispatch
\* either hands a job to the executor, or returns at once (unknown name), or
\* raises (missing key) and returns through the except clause.
CallTool(c, rich) ==
  /\ pc[c] = "idle"
  /\ loopOwner = 0
  /\ \E r \in Requests(rich) :
       LET d == Dispatch(r.name, r.arguments) IN
       /\ request' = [request EXCEPT ![c] = r]
       /\ IF d.kind = "job"
          THEN /\ pc' = [pc EXCEPT ![c] = "awaiting"]
               /\ job' = [job EXCEPT ![c] = d.job]
               /\ queue' = Append(queue, c)
               /\ loopOwner' = AwaitExecutor(c)
               /\ UNCHANGED response
          ELSE /\ pc' = [pc EXCEPT ![c] = "done"]
               /\ response' = [response EXCEPT ![c] =
                    IF d.kind = "raise" THEN HandleException(d.exc)
                    ELSE ReturnResult(d.result)]
               /\ UNCHANGED <<job, queue, loopOwner>>
  /\ overlap' = Arrive(c)
  /\ UNCHANGED <<sdk, outcome, result>>

\* A free worker takes the oldest job and runs the tool method up to its SDK
\* call, which it sends.
WorkerStart(c) ==
  /\ queue # <<>>
  /\ c = Head(queue)
  /\ Cardinality(Running) < NumWorkers
  /\ queue' = Tail(queue)
  /\ pc' = [pc EXCEPT ![c] = "running"]
  /\ sdk' = [sdk EXCEPT ![c] = CallsOf(job[c])]
  /\ UNCHANGED <<request, job, outcome, result, response, loopOwner, overlap>>

\* The SDK call returns or raises; the tool method builds its result, which
\* resolves the future the handler awaits.
WorkerFinish(c, rich) ==
  /\ pc[c] = "running"
  /\ \E out \in IF sdk[c] = <<>> THEN {NoOutcome}
                ELSE Outcomes(sdk[c][1], rich) :
       /\ outcome' = [outcome EXCEPT ![c] = out]
       /\ result' = [result EXCEPT ![c] = RunMethod(job[c], out)]
       /\ sdk' = [sdk EXCEPT ![c] = sdk[c] \o ExceptCalls(job[c], out)]
  /\ pc' = [pc EXCEPT ![c] = "resolved"]
  /\ UNCHANGED <<request, job, response, queue, loopOwner, overlap>>

\* The event loop resumes the handler, which serialises the result and
\* returns (lines 273-276).
Resume(c) ==
  /\ pc[c] = "resolved"
  /\ loopOwner \in {0, c}
  /\ response' = [response EXCEPT ![c] = ReturnResult(result[c])]
  /\ pc' = [pc EXCEPT ![c] = "done"]
  /\ loopOwner' = 0
  /\ UNCHANGED <<request, job, sdk, outcome, result, queue, overlap>>

\* The caller takes the response; the slot is free for the next request.
Deliver(c) ==
  /\ pc[c] = "done"
  /\ pc' = [pc EXCEPT ![c] = "idle"]
  /\ request' = [request EXCEPT ![c] = NoRequest]
  /\ job' = [job EXCEPT ![c] = NoJob]
  /\ sdk' = [sdk EXCEPT ![c] = <<>>]
  /\ outcome' = [outcome EXCEPT ![c] = NoOutcome]
  /\ result' = [result EXCEPT ![c] = NoResult]
  /\ response' = [response EXCEPT ![c] = NoResponse]
  /\ overlap' = Forget(c)
  /\ UNCHANGED <<queue, loopOwner>>

\* One caller that waits for each response before it sends the next request,
\* with the full sets of requests and brokerage replies.
Next ==
  \/ ListTools(1)
  \/ CallTool(1, TRUE)
  \/ WorkerStart(1)
  \/ WorkerFinish(1, TRUE)
  \/ Resume(1)
  \/ Deliver(1)

Spec == Init /\ [][Next]_vars

\* Requests that overlap: every slot may hold a request at any time.
NextConcurrent ==
  \E c \in Slots :
    \/ ListTools(c)
    \/ CallTool(c, FALSE)
    \/ WorkerStart(c)
    \/ WorkerFinish(c, FALSE)
    \/ Resume(c)
    \/ Deliver(c)

SpecConcurrent == Init /\ [][NextConcurrent]_vars

(***************************************************************************)
(* Vocabulary of the properties.                                           *)
(***************************************************************************)
NineNames ==
  <<"get_account_info", "get_positions", "get_orders", "place_market_order",
    "place_limit_order", "cancel_order", "get_stock_quote", "close_position",
    "close_all_positions">>
InCatalog(name) == \E i \in 1..Len(NineNames) : NineNames[i] = name

\* The required arguments of the tools that have some.
RequiredArgs ==
  [place_market_order |-> {"symbol", "quantity", "side"},
   place_limit_order |-> {"symbol", "quantity", "side", "limit_price"},
   cancel_order |-> {"order_id"},
   get_stock_quote |-> {"symbol"},
   close_position |-> {"symbol"}]
MissesRequired(r) ==
  /\ r.name \in DOMAIN RequiredArgs
  /\ \E k \in RequiredArgs[r.name] : k \notin DOMAIN r.arguments

IsCall(c) == request[c].kind = "call_tool"
\* call_tool has returned and the caller has not yet taken the response.
Done(c) == IsCall(c) /\ pc[c] = "done"
\* The payload of the one text content returned.
Payload(c) == response[c].contents[1].text
\* The worker of slot c has sent its SDK call.
Sent(c) == sdk[c] # <<>>
\* The SDK call of slot c has returned normally.
Replied(c) == Sent(c) /\ pc[c] \in {"resolved", "done"} /\ ~outcome[c].raised

\* {error: <string>} and nothing else, at the top level.
ErrorObject(p) ==
  /\ p.shape = "object"
  /\ Len(p.items) = 1
  /\ DOMAIN p.items[1] = {"error"}
  /\ p.items[1].error.t = "str"
\* [{error: <string>}]: the error object wrapped in a list.
ErrorList(p) ==
  /\ p.shape = "list"
  /\ Len(p.items) = 1
  /\ DOMAIN p.items[1] = {"error"}
DescribesError(p) == ErrorObject(p) \/ ErrorList(p)
\* An object, or a list of objects, none of which has an error key.
SuccessResult(p) ==
  /\ p.shape = "object" => Len(p.items) = 1
  /\ \A i \in 1..Len(p.items) : "error" \notin DOMAIN p.items[i]

(***************************************************************************)
(* C1.  call_tool never lets a fault escape: for every name, every         *)
(* argument map (keys missing, values of the wrong type) and every outcome *)
(* of the brokerage call, no exception leaves the handler, a request that  *)
(* is being handled can always proceed, and what is returned is exactly    *)
(* one text content whose payload is a success result or an error result,  *)
(* never both and never neither.                                           *)
(***************************************************************************)
C1_NeverRaises ==
  \A c \in Slots :
    /\ ~response[c].fault
    /\ pc[c] \in {"awaiting", "running", "resolved"} =>
         ENABLED (WorkerStart(c) \/ WorkerFinish(c, TRUE) \/ Resume(c))
    /\ Done(c) =>
         /\ Len(response[c].contents) = 1
         /\ response[c].contents[1].type = "text"
         /\ \/ DescribesError(Payload(c)) /\ ~SuccessResult(Payload(c))
            \/ ~DescribesError(Payload(c)) /\ SuccessResult(Payload(c))

\* A request without its required side argument has been answered with an
\* error object.
C1_Witness ==
  \E c \in Slots :
    /\ Done(c)
    /\ request[c].name = "place_market_order"
    /\ DOMAIN request[c].arguments = {"symbol", "quantity"}
    /\ ErrorObject(Payload(c))

(***************************************************************************)
(* C2.  Whenever the brokerage operation a tool delegates to fails (the    *)
(* SDK call raises, or the quote reply lacks the requested symbol), the    *)
(* payload is the single object {error: <string form of the failure>}, so  *)
(* the error key is at the top level of the payload.                       *)
(***************************************************************************)
BrokerageFailed(c) ==
  /\ Sent(c)
  /\ pc[c] \in {"resolved", "done"}
  /\ \/ outcome[c].raised
     \/ /\ sdk[c][1].op = "get_stock_latest_quote"
        /\ sdk[c][1].req.symbol_or_symbols.s \notin DOMAIN outcome[c].data
FailureText(c) ==
  IF outcome[c].raised THEN outcome[c].exc
  ELSE <<"'">> \o sdk[c][1].req.symbol_or_symbols.s \o <<"'">>

C2_ErrorAtTopLevel ==
  \A c \in Slots :
    Done(c) /\ BrokerageFailed(c) =>
      Payload(c) = Object([error |-> StrV(FailureText(c))])

(***************************************************************************)
(* C3.  A name outside the catalog, with any arguments, is answered at     *)
(* once with {error: "Unknown tool: <name>"}; no job is handed to the      *)
(* executor and no SDK call is made.                                       *)
(***************************************************************************)
C3_UnknownTool ==
  \A c \in Slots :
    IsCall(c) /\ ~InCatalog(request[c].name) =>
      /\ pc[c] = "done"
      /\ ~response[c].fault
      /\ Len(response[c].contents) = 1
      /\ Payload(c) =
           Object([error |-> StrV(<<"Unknown tool: ", request[c].name>>)])
      /\ job[c] = NoJob
      /\ sdk[c] = <<>>
      /\ \A i \in 1..Len(queue) : queue[i] # c

C3_Witness ==
  \E c \in Slots :
    /\ Done(c)
    /\ request[c].name = "GET_ORDERS"
    /\ DOMAIN request[c].arguments = {"symbol"}

(***************************************************************************)
(* get_orders: vocabulary of C4 and C5.                                    *)
(***************************************************************************)
IsGetOrders(c) == IsCall(c) /\ request[c].name = "get_orders"
StatusAbsent(c) == "status" \notin DOMAIN request[c].arguments
StatusIs(c, v) ==
  /\ "status" \in DOMAIN request[c].arguments
  /\ request[c].arguments["status"] = v
\* The status filter of the order query sent for slot c.
FilterSent(c) == sdk[c][1].req.status
\* The orders of a book that are open.
OpenOrders(book) ==
  LET IsOpen(order) == order.status = EnumV("new") IN SelectSeq(book, IsOpen)
ClosedOrders(book) ==
  LET IsClosed(order) == order.status = EnumV("filled") IN
  SelectSeq(book, IsClosed)
\* The ids of the rows of a payload, and of a list of the brokerage's orders.
PayloadIds(p) == [i \in 1..Len(p.items) |-> p.items[i].id.s]
OrderIds(orders) == [i \in 1..Len(orders) |-> orders[i].id.s]

(***************************************************************************)
(* C4 as stated.  get_orders with status "all" and get_orders with no      *)
(* status argument both send the order query with no status filter.        *)
(***************************************************************************)
C4_AbsentStatusUnfiltered ==
  \A c \in Slots :
    IsGetOrders(c) /\ Sent(c)
      /\ (StatusAbsent(c) \/ StatusIs(c, StrV(<<"all">>))) =>
        FilterSent(c) = None

(***************************************************************************)
(* C4 as amended.  get_orders with status "all" sends the order query with *)
(* no status filter and returns every order; get_orders with no status     *)
(* argument takes the default "open": it sends the OPEN filter and returns *)
(* the open orders only.                                                   *)
(***************************************************************************)
C4_AbsentStatusIsOpen ==
  \A c \in Slots :
    IsGetOrders(c) /\ Sent(c) =>
      /\ StatusIs(c, StrV(<<"all">>)) =>
           /\ FilterSent(c) = None
           /\ Done(c) /\ Replied(c) =>
                PayloadIds(Payload(c)) = OrderIds(outcome[c].book)
      /\ StatusAbsent(c) =>
           /\ FilterSent(c) = QueryOrderStatus_OPEN
           /\ Done(c) /\ Replied(c) =>
                PayloadIds(Payload(c)) = OrderIds(OpenOrders(outcome[c].book))

\* get_orders without a status has returned no row although the brokerage
\* holds an order: a closed one.
C4_Witness ==
  \E c \in Slots :
    /\ IsGetOrders(c) /\ StatusAbsent(c)
    /\ Done(c) /\ Replied(c)
    /\ Len(outcome[c].book) >= 1
    /\ outcome[c].book[1].status = EnumV("filled")
    /\ Len(Payload(c).items) < Len(outcome[c].book)

(***************************************************************************)
(* C5.  get_orders with an explicit status s sends the OPEN filter for     *)
(* s = "open", the CLOSED filter for s = "closed" and no filter for every  *)
(* other s ("all", an unrecognised string, a value that is no string); the *)
(* rows returned are the brokerage's open orders, closed orders and all    *)
(* orders respectively.                                                    *)
(***************************************************************************)
C5_StatusFilter ==
  \A c \in Slots :
    IsGetOrders(c) /\ ~StatusAbsent(c) /\ Sent(c) =>
      LET st == request[c].arguments["status"]
          book == outcome[c].book
          returned == Done(c) /\ Replied(c)
      IN /\ Len(sdk[c]) = 1
         /\ sdk[c][1].op = "get_orders"
         /\ st = StrV(<<"open">>) =>
              /\ FilterSent(c) = QueryOrderStatus_OPEN
              /\ returned => PayloadIds(Payload(c)) = OrderIds(OpenOrders(book))
         /\ st = StrV(<<"closed">>) =>
              /\ FilterSent(c) = QueryOrderStatus_CLOSED
              /\ returned =>
                   PayloadIds(Payload(c)) = OrderIds(ClosedOrders(book))
         /\ st \notin {StrV(<<"open">>), StrV(<<"closed">>)} =>
              /\ FilterSent(c) = None
              /\ returned => PayloadIds(Payload(c)) = OrderIds(book)

\* An unrecognised status ("OPEN") has returned a closed order.
C5_Witness ==
  \E c \in Slots :
    /\ IsGetOrders(c) /\ StatusIs(c, StrV(<<"OPEN">>))
    /\ Done(c) /\ Replied(c)
    /\ Len(outcome[c].book) >= 1
    /\ outcome[c].book[1].status = EnumV("filled")
    /\ Len(Payload(c).items) = Len(outcome[c].book)

(***************************************************************************)
(* C6.  place_market_order and place_limit_order, given all their          *)
(* arguments and a string as side: the order is submitted, once, with side *)
(* BUY exactly when side is "buy" in any letter case and with side SELL    *)
(* for every other string; an unrecognised side is not reported as an      *)
(* error (the order the brokerage accepts is returned as a success).       *)
(***************************************************************************)
IsPlaceOrder(c) ==
  /\ IsCall(c)
  /\ request[c].name \in {"place_market_order", "place_limit_order"}
  /\ ~MissesRequired(request[c])
\* The text is b-u-y in any letter case.
IsBuyAnyCase(txt) ==
  /\ Len(txt) = 3
  /\ txt[1] \in {"b", "B"}
  /\ txt[2] \in {"u", "U"}
  /\ txt[3] \in {"y", "Y"}
ExpectedSide(txt) == IF IsBuyAnyCase(txt) THEN "buy" ELSE "sell"

PositionNullables == {"current_price", "lastday_price", "change_today"}
OrderNullables == {"filled_qty", "limit_price", "stop_price", "filled_avg_price"}
\* Slot c has returned the rows of a successful call of the SDK method op.
Read(c, op) == Done(c) /\ Replied(c) /\ sdk[c][1].op = op
\* Field f of row i: absent in the brokerage's reply, and v in the payload.
AbsentOutputAs(c, i, f, v) ==
  outcome[c].data[i][f] = None => Payload(c).items[i][f] = v

C8_MissingArgument ==
  \A c \in Slots :
    IsCall(c) /\ MissesRequired(request[c]) =>
      /\ pc[c] = "done"
      /\ ~response[c].fault
      /\ Len(response[c].contents) = 1
      /\ ErrorObject(Payload(c))
      /\ job[c] = NoJob
      /\ sdk[c] = <<>>
      /\ \A i \in 1..Len(queue) : queue[i] # c

\* place_limit_order without its limit_price has been answered.
C8_Witness ==
  \E c \in Slots :
    /\ Done(c)
    /\ request[c].name = "place_limit_order"
    /\ DOMAIN request[c].arguments = {"symbol", "quantity", "side"}
    /\ ErrorObject(Payload(c))
    /\ sdk[c] = <<>>

(***************************************************************************)
(* C9.  A call_tool whose brokerage call is in flight does not stall the   *)
(* calling layer: while some request waits for its worker or its SDK call, *)
(* the event loop is free, a free slot accepts a call_tool or a list_tools *)
(* request, a running SDK call can return, and a request whose job is      *)
(* finished is resumed and returns, whatever the other requests are doing. *)
(***************************************************************************)
InFlight(c) == pc[c] \in {"awaiting", "running"}

C9_NotStalled ==
  \A c \in Slots :
    /\ (\E d \in Slots : InFlight(d)) => loopOwner = 0
    /\ pc[c] = "idle" /\ (\E d \in Slots \ {c} : InFlight(d)) =>
         /\ ENABLED CallTool(c, FALSE)
         /\ ENABLED ListTools(c)
    /\ pc[c] = "running" => ENABLED WorkerFinish(c, FALSE)
    /\ pc[c] = "resolved" => ENABLED Resume(c)

\* The second request arrived while the SDK call of the first was in flight,
\* made its own SDK call and has returned; the first is still in flight.
C9_Witness ==
  /\ pc[1] = "running" /\ Sent(1)
  /\ overlap[2][1] = "running"
  /\ Done(2) /\ Sent(2)
  /\ SuccessResult(Payload(2))

(***************************************************************************)
(* C10.  list_tools always succeeds and returns the same catalog: the 9    *)
(* names, each once, in the stated order, whatever call_tool requests      *)
(* (successful or failing) were handled before it or are being handled.    *)
(***************************************************************************)
IsList(c) == request[c].kind = "list_tools"
ToolNames(tools) == [i \in 1..Len(tools) |-> tools[i].name]

C10_FixedCatalog ==
  \A c \in Slots :
    /\ pc[c] = "idle" /\ loopOwner = 0 => ENABLED ListTools(c)
    /\ IsList(c) =>
         /\ pc[c] = "done"
         /\ ~response[c].fault
         /\ ToolNames(response[c].contents) = NineNames
         /\ \A d \in Slots : IsList(d) /\ pc[d] = "done" =>
              response[d].contents = response[c].contents

\* list_tools has returned the catalog; when its request arrived, a call_tool
\* request had already been answered with an error.
C10_Witness ==
  /\ IsList(1) /\ pc[1] = "done"
  /\ overlap[1][2] = "done"
  /\ Done(2) /\ ErrorObject(Payload(2)) /\ Sent(2)
  /\ Len(response[1].contents) = 9

(***************************************************************************)
(* C11: vocabulary.                                                        *)
(***************************************************************************)
\* The SDK operation that corresponds to each tool name.
OperationOf ==
  [get_account_info |-> "get_account",
   get_positions |-> "get_all_positions",
   get_orders |-> "get_orders",
   place_market_order |-> "submit_order",
   place_limit_order |-> "submit_order",
   cancel_order |-> "cancel_order_by_id",
   get_stock_quote |-> "get_stock_latest_quote",
   close_position |-> "close_position",
   close_all_positions |-> "close_all_positions"]
ReadTools ==
  {"get_account_info", "get_positions", "get_orders", "get_stock_quote"}
ReadOperations ==
  {"get_account", "get_all_positions", "get_orders", "get_stock_latest_quote"}
\* A request with a catalog name and all its required arguments.
IsComplete(c) ==
  IsCall(c) /\ InCatalog(request[c].name) /\ ~MissesRequired(request[c])
\* The worker of slot c has run its tool method up to, or past, its SDK call.
Worked(c) == pc[c] \in {"running", "resolved", "done"}
\* An order request whose side is no string.
SideNotString(c) ==
  /\ request[c].name \in {"place_market_order", "place_limit_order"}
  /\ request[c].arguments["side"].t # "str"

(***************************************************************************)
(* C11 as stated.  A call_tool request with a catalog name and all its     *)
(* required arguments invokes exactly one brokerage operation, exactly     *)
(* once, whether the operation succeeds or fails, and the operation is the *)
(* one that corresponds to the tool name.                                  *)
(***************************************************************************)
C11_ExactlyOneOperation ==
  \A c \in Slots :
    IsComplete(c) /\ Worked(c) =>
      /\ Len(sdk[c]) = 1
      /\ sdk[c][1].op = OperationOf[request[c].name]

(***************************************************************************)
(* C11 as amended.  A call_tool request with a catalog name and all its    *)
(* required arguments invokes at most one brokerage operation, never a     *)
(* second one and never the same one again, whether it succeeds or fails;  *)
(* the operation is the one that corresponds to the tool name, so the four *)
(* read tools invoke read operations only.  It invokes exactly one, except *)
(* that place_market_order and place_limit_order given a side that is no   *)
(* string fail before they submit and invoke none.                         *)
(***************************************************************************)
C11_OneOperation ==
  \A c \in Slots :
    /\ Len(sdk[c]) <= 1
    /\ IsComplete(c) =>
         /\ \A i \in 1..Len(sdk[c]) :
              /\ sdk[c][i].op = OperationOf[request[c].name]
              /\ request[c].name \in ReadTools =>
                   sdk[c][i].op \in ReadOperations
         /\ Worked(c) =>
              Len(sdk[c]) = IF SideNotString(c) THEN 0 ELSE 1
         /\ pc[c] \in {"idle", "awaiting"} => sdk[c] = <<>>

\* cancel_order has returned the failure of its one SDK call.
C11_Witness ==
  \E c \in Slots :
    /\ Done(c) /\ IsComplete(c)
    /\ request[c].name = "cancel_order"
    /\ outcome[c].raised
    /\ Len(sdk[c]) = 1
    /\ sdk[c][1].op = "cancel_order_by_id"
    /\ ErrorObject(Payload(c))

====
